---------------------------- MODULE Spec2Model ----------------------------
(***************************************************************************)
(* Model of forecast.py: one invocation of main().  The run is a linear    *)
(* pipeline: parse arguments, read the CSV, check the columns, check       *)
(* emptiness, prepare the rows, import the forecasting engine, fit and     *)
(* predict.  The command line, the file and the engine are the run's       *)
(* inputs; stdout, stderr and the exit code are its outputs.               *)
(*                                                                         *)
(* Cell texts are sequences of one-character strings, so that sorting the  *)
(* raw text and parsing it are two different computations, as in the code. *)
(***************************************************************************)
EXTENDS Integers, Sequences, FiniteSets, TLC

VARIABLES
    argv,      \* the command line: <<>> or <<"--csv", path>>
    file,      \* the file at the path: readable?, header, lines
    engine,    \* the forecasting engine: importable?, fit succeeds?, yhat
    pc,        \* position of main()
    df,        \* the data frame: columns and rows
    stdout,    \* lines written to standard output
    stderr,    \* lines written to standard error
    exitCode   \* the process exit status, meaningful once pc = "exited"

vars == <<argv, file, engine, pc, df, stdout, stderr, exitCode>>

(***************************************************************************)
(* Bounds of the model.                                                    *)
(***************************************************************************)
MaxRows == 3

(***************************************************************************)
(* Texts.                                                                  *)
(***************************************************************************)
Digits == <<"0", "1", "2", "3", "4", "5", "6", "7", "8", "9">>

IsDigit(c) == \E i \in 1..10 : Digits[i] = c

DigitValue(c) == (CHOOSE i \in 1..10 : Digits[i] = c) - 1

\* Code point of a character: Python compares str values code point by
\* code point.
Ord(c) ==
    IF c = "/" THEN 47
    ELSE IF IsDigit(c) THEN 48 + DigitValue(c)
    ELSE 120

\* a < b for two str values (lexicographic on code points).
RECURSIVE TextLess(_, _)
TextLess(a, b) ==
    IF b = <<>> THEN FALSE
    ELSE IF a = <<>> THEN TRUE
    ELSE IF Ord(Head(a)) # Ord(Head(b)) THEN Ord(Head(a)) < Ord(Head(b))
    ELSE TextLess(Tail(a), Tail(b))

\* Decimal value of a text of digits.
RECURSIVE DecimalValue(_)
DecimalValue(t) ==
    IF t = <<>> THEN 0
    ELSE 10 * DecimalValue(SubSeq(t, 1, Len(t) - 1)) + DigitValue(t[Len(t)])

AllDigits(t) == t # <<>> /\ \A i \in 1..Len(t) : IsDigit(t[i])

(***************************************************************************)
(* The inputs.                                                             *)
(***************************************************************************)
\* Cells of the first column: two month/day/year dates whose text order is
\* the reverse of their calendar order, and a text that is no date.
DateCells ==
    { <<"1", "2", "/", "3", "1", "/", "2", "0", "2", "2">>,
      <<"0", "1", "/", "0", "1", "/", "2", "0", "2", "3">>,
      <<"x", "x">> }

\* Cells of the second column: two numbers and a text that is no number.
RatingCells == { <<"4">>, <<"5">>, <<"x">> }

Headers == { <<c1, c2>> : c1 \in {"date", "day"}, c2 \in {"rating", "score"} }

Lines == DateCells \X RatingCells

Tables == UNION { [1..n -> Lines] : n \in 0..MaxRows }

Files ==
    { [readable |-> FALSE, header |-> <<>>, lines |-> <<>>] }
    \cup [readable : {TRUE}, header : Headers, lines : Tables]

\* The values the engine may predict when it fits.
Yhats == {3, 4}

\* An engine that cannot be imported, one whose fit or predict raises, and
\* engines that predict a value.
Engines ==
    { [available |-> FALSE, fits |-> FALSE],
      [available |-> TRUE, fits |-> FALSE] }
    \cup [available : {TRUE}, fits : {TRUE}, yhat : Yhats]

Argvs == { <<>>, <<"--csv", "ratings.csv">> }

NoFrame == [columns |-> <<>>, rows |-> <<>>]

Init ==
    /\ argv \in Argvs
    /\ file \in Files
    /\ engine \in Engines
    /\ pc = "args"
    /\ df = NoFrame
    /\ stdout = <<>>
    /\ stderr = <<>>
    /\ exitCode = 0

\* sys.exit(code), or an exit by return or by an uncaught exception.
Exit(code) ==
    /\ pc' = "exited"
    /\ exitCode' = code

Terminated == pc = "exited"

(***************************************************************************)
(* parser.parse_args(): --csv is required; without it argparse writes the  *)
(* usage and the error to stderr and exits with status 2.                  *)
(***************************************************************************)
ParseArgs ==
    /\ pc = "args"
    /\ IF Len(argv) = 2 /\ argv[1] = "--csv"
       THEN /\ pc' = "read"
            /\ UNCHANGED <<stderr, exitCode>>
       ELSE /\ stderr' = <<"usage: forecast.py [-h] --csv CSV",
                           "forecast.py: error: the following arguments are required: --csv">>
            /\ Exit(2)
    /\ UNCHANGED <<argv, file, engine, df, stdout>>

(***************************************************************************)
(* pd.read_csv(args.csv): a frame with the header's columns and one row    *)
(* per line; any exception is reported as csv-read-failed, exit 2.         *)
(***************************************************************************)
Row(header, line) == (header[1] :> line[1]) @@ (header[2] :> line[2])

ReadCsvFrame(f) ==
    [columns |-> f.header,
     rows    |-> [i \in 1..Len(f.lines) |-> Row(f.header, f.lines[i])]]

ReadCsv ==
    /\ pc = "read"
    /\ IF file.readable
       THEN /\ df' = ReadCsvFrame(file)
            /\ pc' = "columns"
            /\ UNCHANGED <<stderr, exitCode>>
       ELSE /\ stderr' = <<"csv-read-failed: No such file or directory">>
            /\ Exit(2)
            /\ UNCHANGED df
    /\ UNCHANGED <<argv, file, engine, stdout>>

(***************************************************************************)
(* 'date' not in df.columns or 'rating' not in df.columns                  *)
(***************************************************************************)
HasColumn(frame, name) == \E i \in 1..Len(frame.columns) : frame.columns[i] = name

\* Mutant: "and" written for "or".
MissingColumnsBoth(frame) == ~HasColumn(frame, "date") /\ ~HasColumn(frame, "rating")

MissingColumns(frame) == ~HasColumn(frame, "date") \/ ~HasColumn(frame, "rating")

CheckColumns ==
    /\ pc = "columns"
    /\ IF MissingColumns(df)
       THEN /\ stderr' = <<"csv-missing-columns">>
            /\ Exit(3)
       ELSE /\ pc' = "empty"
            /\ UNCHANGED <<stderr, exitCode>>
    /\ UNCHANGED <<argv, file, engine, df, stdout>>

(***************************************************************************)
(* len(df) == 0: print {"yhat": null} and return.                          *)
(***************************************************************************)
\* json.dumps({"yhat": None}) and json.dumps({"yhat": float(yhat)}).
FloatRepr(v) == ToString(v) \o ".0"

JsonDumpsNull == "{\"yhat\": null}"

JsonDumps(v) == "{\"yhat\": " \o FloatRepr(v) \o "}"

\* Mutant: the emptiness check is left out.
CheckEmptySkipped ==
    /\ pc = "empty"
    /\ pc' = "prepare"
    /\ UNCHANGED <<argv, file, engine, df, stdout, stderr, exitCode>>

CheckEmpty ==
    /\ pc = "empty"
    /\ IF Len(df.rows) = 0
       THEN /\ stdout' = <<JsonDumpsNull>>
            /\ Exit(0)
       ELSE /\ pc' = "prepare"
            /\ UNCHANGED <<stdout, exitCode>>
    /\ UNCHANGED <<argv, file, engine, df, stderr>>

(***************************************************************************)
(* Row preparation.                                                        *)
(***************************************************************************)
\* df[['date', 'rating']].copy()
Project(rows) ==
    [i \in 1..Len(rows) |-> [date |-> rows[i].date, rating |-> rows[i].rating]]

\* df.sort_values('date'): ascending on the raw cell; rows with equal cells
\* keep their order (numpy sorts this few elements by insertion).
RECURSIVE InsertRow(_, _)
InsertRow(sorted, r) ==
    IF sorted = <<>> THEN <<r>>
    ELSE IF TextLess(r.date, sorted[Len(sorted)].date)
         THEN Append(InsertRow(SubSeq(sorted, 1, Len(sorted) - 1), r),
                     sorted[Len(sorted)])
         ELSE Append(sorted, r)

\* Mutant: the sort is left out.
SortValuesUnsorted(rows) == rows

RECURSIVE SortValues(_)
SortValues(rows) ==
    IF rows = <<>> THEN <<>>
    ELSE InsertRow(SortValues(SubSeq(rows, 1, Len(rows) - 1)), rows[Len(rows)])

\* pd.to_datetime on a month/day/year text: the calendar day as the number
\* yyyymmdd; any other text raises.
IsDateText(t) ==
    /\ Len(t) = 10
    /\ t[3] = "/" /\ t[6] = "/"
    /\ \A i \in {1, 2, 4, 5, 7, 8, 9, 10} : IsDigit(t[i])
    /\ DecimalValue(SubSeq(t, 1, 2)) \in 1..12
    /\ DecimalValue(SubSeq(t, 4, 5)) \in 1..31

ToDatetime(t) ==
    10000 * DecimalValue(SubSeq(t, 7, 10))
      + 100 * DecimalValue(SubSeq(t, 1, 2))
      + DecimalValue(SubSeq(t, 4, 5))

ToDatetimeRaises(rows) == \E i \in 1..Len(rows) : ~IsDateText(rows[i].date)

\* pd.to_numeric(errors='coerce'): <<v>> for a number, <<>> for NaN.
NaN == <<>>

ToNumeric(t) == IF AllDigits(t) THEN <<DecimalValue(t)>> ELSE NaN

\* df['ds'] = ...; df['y'] = ...
AddColumns(rows) ==
    [i \in 1..Len(rows) |->
        [date |-> rows[i].date, rating |-> rows[i].rating,
         ds |-> ToDatetime(rows[i].date), y |-> ToNumeric(rows[i].rating)]]

\* Mutant: the rows with a missing y are kept.
DropNaKeepsAll(rows) == rows

\* df.dropna(subset=['y'])
RECURSIVE DropNa(_)
DropNa(rows) ==
    IF rows = <<>> THEN <<>>
    ELSE IF Head(rows).y = NaN THEN DropNa(Tail(rows))
    ELSE <<Head(rows)>> \o DropNa(Tail(rows))

\* Lines 27-31 on a frame whose dates all parse.
PreparedRows(rows) == DropNa(AddColumns(SortValues(Project(rows))))

PrepareRows ==
    /\ pc = "prepare"
    /\ IF ToDatetimeRaises(df.rows)
       THEN \* the exception is not caught: traceback on stderr, status 1
            /\ stderr' = <<"Traceback (most recent call last):",
                           "  File \"forecast.py\", line 29, in main",
                           "ValueError: Unknown datetime string format">>
            /\ Exit(1)
            /\ UNCHANGED df
       ELSE /\ df' = [columns |-> <<"date", "rating", "ds", "y">>,
                      rows    |-> PreparedRows(df.rows)]
            /\ pc' = "import"
            /\ UNCHANGED <<stderr, exitCode>>
    /\ UNCHANGED <<argv, file, engine, stdout>>

(***************************************************************************)
(* from prophet import Prophet                                             *)
(***************************************************************************)
\* Mutant: the failed import reports the error and goes on.
ImportEngineNoExit ==
    /\ pc = "import"
    /\ pc' = "fit"
    /\ stderr' = IF engine.available THEN stderr
                 ELSE <<"prophet-import-failed: No module named 'prophet'">>
    /\ UNCHANGED <<argv, file, engine, df, stdout, exitCode>>

ImportEngine ==
    /\ pc = "import"
    /\ IF engine.available
       THEN /\ pc' = "fit"
            /\ UNCHANGED <<stderr, exitCode>>
       ELSE /\ stderr' = <<"prophet-import-failed: No module named 'prophet'">>
            /\ Exit(4)
    /\ UNCHANGED <<argv, file, engine, df, stdout>>

(***************************************************************************)
(* Prophet(...).fit(df[['ds', 'y']]), predict one day ahead, print yhat.   *)
(***************************************************************************)
\* df[['ds', 'y']]: the series handed to the forecaster.
FitInput(rows) == [i \in 1..Len(rows) |-> [ds |-> rows[i].ds, y |-> rows[i].y]]

FitPredict ==
    /\ pc = "fit"
    /\ IF engine.fits
       THEN /\ stdout' = <<JsonDumps(engine.yhat)>>
            /\ Exit(0)
            /\ UNCHANGED stderr
       ELSE /\ stderr' = <<"prophet-fit-failed: engine error">>
            /\ Exit(5)
            /\ UNCHANGED stdout
    /\ UNCHANGED <<argv, file, engine, df>>

Next ==
    \/ ParseArgs
    \/ ReadCsv
    \/ CheckColumns
    \/ CheckEmpty
    \/ PrepareRows
    \/ ImportEngine
    \/ FitPredict

Spec == Init /\ [][Next]_vars

(***************************************************************************)
(* What the run's inputs are, for the properties below.                    *)
(***************************************************************************)
ArgsGiven == Len(argv) = 2 /\ argv[1] = "--csv"

\* The CSV was read into a table.
Loaded == ArgsGiven /\ file.readable

HasBothColumns == file.header = <<"date", "rating">>

\* A loaded table with both columns and at least one data row.
NonEmptyTable == Loaded /\ HasBothColumns /\ file.lines # <<>>

IsNumericCell(t) == AllDigits(t)

AllDatesParse == \A i \in 1..Len(file.lines) : IsDateText(file.lines[i][1])

\* Row preparation has finished: the frame carries the ds and y columns.
Prepared == HasColumn(df, "ds")

\* The same file with its data lines in the order p.
RowOrders(n) ==
    { p \in [1..n -> 1..n] : \A i, j \in 1..n : p[i] = p[j] => i = j }

Permuted(lines, p) == [i \in 1..Len(lines) |-> lines[p[i]]]

\* The series row preparation hands to the forecaster for these data lines.
SeriesOf(lines) ==
    FitInput(PreparedRows(
        ReadCsvFrame([readable |-> TRUE, header |-> <<"date", "rating">>,
                      lines |-> lines]).rows))

\* How often the element e occurs in the sequence s.
Count(s, e) == Cardinality({ i \in 1..Len(s) : s[i] = e })

SameBag(s, t) ==
    /\ Len(s) = Len(t)
    /\ \A i \in 1..Len(s) : Count(s, s[i]) = Count(t, s[i])

DsColumn(series) == [i \in 1..Len(series) |-> series[i].ds]

(***************************************************************************)
(* C1: every run ends with an exit code in {0, 2, 3, 4, 5}; it is 2 iff    *)
(* reading the CSV failed, 3 iff a required column is missing, 4 iff the   *)
(* engine could not be imported, 5 iff fitting or predicting failed; no    *)
(* other cause of termination gives one of these or another non-zero code. *)
(***************************************************************************)
C1_ExitCodesOneToOne ==
    Terminated =>
        /\ exitCode \in {0, 2, 3, 4, 5}
        /\ exitCode = 2 <=> (ArgsGiven /\ ~file.readable)
        /\ exitCode = 3 <=> (Loaded /\ ~HasBothColumns)
        /\ exitCode = 4 <=> (Prepared /\ ~engine.available)
        /\ exitCode = 5 <=> (Prepared /\ engine.available /\ ~engine.fits)

(***************************************************************************)
(* C2: a loaded table with both columns and zero data rows gives exactly   *)
(* {"yhat": null} on stdout and exit 0, and the run never reaches row      *)
(* preparation, the engine import or the fit, whatever the engine is.      *)
(***************************************************************************)
C2_EmptyTableNull ==
    (Loaded /\ HasBothColumns /\ file.lines = <<>>) =>
        /\ pc \notin {"prepare", "import", "fit"}
        /\ Terminated =>
            /\ stdout = <<"{\"yhat\": null}">>
            /\ stderr = <<>>
            /\ exitCode = 0

C2_Witness ==
    /\ Terminated /\ Loaded /\ HasBothColumns /\ file.lines = <<>>
    /\ ~engine.available
    /\ stdout = <<"{\"yhat\": null}">> /\ exitCode = 0

(***************************************************************************)
(* C3: a loaded table lacking the date or the rating column, with any      *)
(* number of rows, exits 3 with csv-missing-columns on stderr, writes      *)
(* nothing to stdout and never reaches the emptiness check, row            *)
(* preparation or the engine.                                              *)
(***************************************************************************)
C3_MissingColumnsExit3 ==
    (Loaded /\ ~HasBothColumns) =>
        /\ pc \notin {"empty", "prepare", "import", "fit"}
        /\ stdout = <<>>
        /\ Terminated => (exitCode = 3 /\ stderr = <<"csv-missing-columns">>)

C3_Witness ==
    /\ Terminated /\ Loaded
    /\ file.header = <<"date", "score">>
    /\ file.lines = <<>>
    /\ exitCode = 3 /\ stderr = <<"csv-missing-columns">> /\ stdout = <<>>

(***************************************************************************)
(* C4: a terminated run has one of two output shapes: exit 0 with exactly  *)
(* one yhat line on stdout and nothing on stderr, or a non-zero exit with  *)
(* exactly one line on stderr and nothing on stdout.                       *)
(***************************************************************************)
YhatLines == { JsonDumps(v) : v \in Yhats } \cup { JsonDumpsNull }

C4_OneLineOneStream ==
    Terminated =>
        \/ exitCode = 0 /\ Len(stdout) = 1 /\ stdout[1] \in YhatLines /\ stderr = <<>>
        \/ exitCode # 0 /\ Len(stderr) = 1 /\ stdout = <<>>

(***************************************************************************)
(* C5 as stated: the prepared series is the same for every order of the    *)
(* table's rows, rows sharing a date with different ratings included.      *)
(***************************************************************************)
C5_AnyOrderSameSeries ==
    (Prepared /\ ~Terminated) =>
        \A p \in RowOrders(Len(file.lines)) :
            SeriesOf(Permuted(file.lines, p)) = FitInput(df.rows)

(***************************************************************************)
(* C5 as amended: for every order of the table's rows the prepared series  *)
(* has the same sequence of dates and the same rows with the same          *)
(* multiplicities; it is the identical sequence when rows sharing a date   *)
(* also share the rating.                                                  *)
(***************************************************************************)
TiesAgree ==
    \A i, j \in 1..Len(file.lines) :
        file.lines[i][1] = file.lines[j][1] => file.lines[i][2] = file.lines[j][2]

C5_OrderInsensitiveUpToTies ==
    (Prepared /\ ~Terminated) =>
        \A p \in RowOrders(Len(file.lines)) :
            LET other == SeriesOf(Permuted(file.lines, p))
                mine  == FitInput(df.rows)
            IN  /\ DsColumn(other) = DsColumn(mine)
                /\ SameBag(other, mine)
                /\ TiesAgree => other = mine

C5_Witness ==
    /\ Prepared /\ pc = "fit"
    /\ \E i, j \in 1..Len(file.lines) :
        /\ i < j
        /\ file.lines[i][1] = file.lines[j][1]
        /\ file.lines[i][2] # file.lines[j][2]
        /\ IsNumericCell(file.lines[i][2]) /\ IsNumericCell(file.lines[j][2])
    /\ \E i, j \in 1..Len(file.lines) :
        TextLess(file.lines[j][1], file.lines[i][1]) /\ i < j

(***************************************************************************)
(* C6: when at least one rating is numeric, the series handed to the fit   *)
(* holds no row whose rating is not a number and holds every row with a    *)
(* numeric rating exactly once; and non-numeric ratings cause no failure:  *)
(* when the dates parse, the exit is decided by the engine alone.          *)
(***************************************************************************)
NumericLines(lines) ==
    { i \in 1..Len(lines) : IsNumericCell(lines[i][2]) }

\* The observation a data line stands for.
Observation(line) == [ds |-> ToDatetime(line[1]), y |-> <<DecimalValue(line[2])>>]

C6_NonNumericDropped ==
    (NonEmptyTable /\ NumericLines(file.lines) # {}) =>
        /\ (Prepared /\ ~Terminated) =>
            LET series == FitInput(df.rows)
            IN  /\ \A k \in 1..Len(series) : series[k].y # NaN
                /\ Len(series) = Cardinality(NumericLines(file.lines))
                /\ \A i \in NumericLines(file.lines) :
                    Count(series, Observation(file.lines[i]))
                      = Cardinality({ j \in NumericLines(file.lines) :
                                        Observation(file.lines[j])
                                          = Observation(file.lines[i]) })
        /\ (Terminated /\ AllDatesParse) =>
            /\ exitCode \in {0, 4, 5}
            /\ exitCode = 4 <=> ~engine.available
            /\ exitCode = 5 <=> (engine.available /\ ~engine.fits)

C6_Witness ==
    /\ pc = "fit"
    /\ Len(file.lines) = 3
    /\ Cardinality(NumericLines(file.lines)) = 2
    /\ Len(df.rows) = 2

(***************************************************************************)
(* C7: the series handed to the forecaster is ascending by calendar date:  *)
(* each row's ds is not later than the next row's.                         *)
(***************************************************************************)
C7_AscendingByCalendarDate ==
    (Prepared /\ ~Terminated) =>
        \A k \in 1..(Len(df.rows) - 1) : df.rows[k].ds <= df.rows[k + 1].ds

(***************************************************************************)
(* C8: row preparation has no failure path: from row preparation the run   *)
(* always goes on to the engine import.                                    *)
(***************************************************************************)
C8_PrepareNeverFails == [][pc = "prepare" => pc' = "import"]_vars

(***************************************************************************)
(* C9: a table with rows whose ratings are all non-numeric is not          *)
(* short-circuited to {"yhat": null}; it ends with exit 4, exit 5 or a     *)
(* numeric yhat.                                                           *)
(***************************************************************************)
C9_AllInvalidReachesEngine ==
    (Terminated /\ NonEmptyTable /\ NumericLines(file.lines) = {}) =>
        /\ stdout # <<JsonDumpsNull>>
        /\ \/ exitCode = 4
           \/ exitCode = 5
           \/ exitCode = 0 /\ stdout \in { <<JsonDumps(v)>> : v \in Yhats }

(***************************************************************************)
(* C10: the steps run at most once each, in the fixed order; a step either *)
(* hands over to the next step or ends the run, and nothing runs after the *)
(* run has ended; exit 4 and exit 5 happen only for a loaded non-empty     *)
(* table with both columns, exit 5 only after the import succeeded.        *)
(***************************************************************************)
Steps == <<"args", "read", "columns", "empty", "prepare", "import", "fit">>

StepIndex(p) == CHOOSE k \in 1..Len(Steps) : Steps[k] = p

C10_LinearFailFast ==
    [][ /\ ~Terminated
        /\ \/ pc' = "exited"
           \/ /\ StepIndex(pc) < Len(Steps)
              /\ pc' = Steps[StepIndex(pc) + 1]
              /\ stdout' = <<>> /\ stderr' = <<>>
        /\ (pc' = "exited" /\ exitCode' \in {4, 5}) => NonEmptyTable
        /\ (pc' = "exited" /\ exitCode' = 4) => pc = "import"
        /\ (pc' = "exited" /\ exitCode' = 5) => (pc = "fit" /\ engine.available)
      ]_vars

C10_Witness ==
    /\ Terminated /\ exitCode = 5
    /\ Len(file.lines) = 3
    /\ stderr = <<"prophet-fit-failed: engine error">>

=============================================================================
